---- MODULE Spec2Model ----
(***************************************************************************)
(* A model of main_us.py: the daily S&P 500+400 scanner.                   *)
(*                                                                         *)
(*   Spec      the whole program: universe acquisition, the scan loop and  *)
(*             the rolling update of the Google Sheet, run after run.      *)
(*   SpecScan  one run up to the end of the scan loop.                     *)
(*   SpecStore update_rolling_data called again and again on a worksheet   *)
(*             that earlier runs have filled.                              *)
(*   SpecEval  check_stock applied to one downloaded frame.                *)
(*   SpecRsi   calculate_rsi applied to one close series.                  *)
(*                                                                         *)
(* Text cells (dates, tickers, names) are sequences of one-character       *)
(* strings, so that str.replace and the string order used by sorted() are  *)
(* computed character by character.  Floating point values are records     *)
(* [k, n, d]: k = "num" is the rational n/d, k = "inf" is +infinity and    *)
(* k = "nan" is not-a-number.                                              *)
(***************************************************************************)
EXTENDS Integers, Sequences, FiniteSets

VARIABLES
    pc,            \* position of the program
    now,           \* the wall clock, as a day number
    run,           \* program invocations (Spec), calls of the update (SpecStore)
    sheet,         \* the worksheet rsi_scanner_us: [exists, rows]
    tickers,       \* __main__: tickers
    name_map,      \* __main__: name_map
    i,             \* __main__: position of the scan loop (1-based)
    found_stocks,  \* __main__: found_stocks
    evals,         \* history: each ticker scanned, with the frame yf.download returned
    calls,         \* history: invocations of update_rolling_data in this run
    all_rows,      \* update_rolling_data: all_rows
    header,        \* update_rolling_data: header
    final_data,    \* update_rolling_data: final_data
    today_str,     \* update_rolling_data: today_str
    upd,           \* outcome of update_rolling_data: "none", "running", "ok", "failed"
    df,            \* SpecEval: the frame handed to check_stock
    res,           \* SpecEval: what check_stock returned
    series,        \* SpecRsi: the close series
    rsi            \* SpecRsi: what calculate_rsi returned

vars == <<pc, now, run, sheet, tickers, name_map, i, found_stocks, evals, calls,
          all_rows, header, final_data, today_str, upd, df, res, series, rsi>>

mainVars == <<now, run, sheet, tickers, name_map, i, found_stocks, evals, calls,
              all_rows, header, final_data, today_str, upd>>

\* ------------------------------------------------------------------ bounds
MaxDay == 2        \* the clock runs over days 1..MaxDay
MaxRuns == 2       \* program invocations (Spec), calls of the update (SpecStore)
Max500 == 2        \* rows of the S&P 500 table
Max400 == 1        \* rows of the S&P 400 table
MaxLen == 4        \* bars of a close series handed to calculate_rsi

\* ------------------------------------------------------------------ configuration
MIN_PRICE == 5
MIN_VOLUME_SHARES == 200000
MIN_BARS == 300
RSI_LENGTH == 100
RETENTION_DAYS == 3

\* ------------------------------------------------------------------ floating point
Num(n) == [k |-> "num", n |-> n, d |-> 1]
NaN == [k |-> "nan", n |-> 0, d |-> 1]
Inf == [k |-> "inf", n |-> 0, d |-> 1]

RECURSIVE Gcd(_, _)
Gcd(a, b) == IF b = 0 THEN a ELSE Gcd(b, a % b)

Abs(a) == IF a < 0 THEN -a ELSE a

\* the rational n/d (d > 0) in lowest terms
Rat(n, d) ==
    LET g == Gcd(Abs(n), d)
    IN [k |-> "num", n |-> n \div g, d |-> d \div g]

\* a > b on floats: any comparison with NaN is False
Gt(a, b) ==
    /\ a.k # "nan"
    /\ b.k # "nan"
    /\ \/ a.k = "inf" /\ b.k = "num"
       \/ a.k = "num" /\ b.k = "num" /\ a.n * b.d > b.n * a.d

\* a < b on floats
Lt(a, b) == Gt(b, a)

\* a + b, for a finite b
FAdd(a, b) ==
    IF a.k = "num"
    THEN Rat(a.n * b.d + b.n * a.d, a.d * b.d)
    ELSE a

\* a - b, for a finite a
FSub(a, b) ==
    IF b.k = "num"
    THEN Rat(a.n * b.d - b.n * a.d, a.d * b.d)
    ELSE IF b.k = "inf" THEN [k |-> "inf", n |-> -1, d |-> 1] ELSE NaN

\* a / b for non-negative a and b (IEEE 754: 0/0 = NaN, x/0 = inf, x/inf = 0)
FDiv(a, b) ==
    IF a.k = "nan" \/ b.k = "nan" THEN NaN
    ELSE IF a.k = "inf" THEN (IF b.k = "inf" THEN NaN ELSE Inf)
    ELSE IF b.k = "inf" THEN Num(0)
    ELSE IF b.n = 0 THEN (IF a.n = 0 THEN NaN ELSE Inf)
    ELSE LET g == Gcd(a.d, b.d)
         IN Rat(a.n * (b.d \div g), b.n * (a.d \div g))

\* ------------------------------------------------------------------ calculate_rsi
\* series.diff(): NaN at the first bar
diff(s) == [t \in DOMAIN s |-> IF t = 1 THEN NaN ELSE Num(s[t] - s[t - 1])]

\* delta.clip(lower=0)
clip_lower(delta) ==
    [t \in DOMAIN delta |->
        IF delta[t].k = "num" /\ delta[t].n < 0 THEN Num(0) ELSE delta[t]]

\* -1 * delta.clip(upper=0)
neg_clip_upper(delta) ==
    [t \in DOMAIN delta |->
        IF delta[t].k # "num" THEN delta[t]
        ELSE IF delta[t].n > 0 THEN Num(0) ELSE Num(-delta[t].n)]

\* x.ewm(alpha=1/length, adjust=False).mean() up to bar t: NaN until the first
\* observation, which seeds the average; then y = (1 - alpha) * y + alpha * x
RECURSIVE ewm_mean_at(_, _, _)
ewm_mean_at(x, length, t) ==
    IF t = 1 THEN x[1]
    ELSE LET y == ewm_mean_at(x, length, t - 1)
         IN IF y.k = "nan" THEN x[t]
            ELSE Rat((length - 1) * y.n * x[t].d + x[t].n * y.d, length * y.d * x[t].d)

ewm_mean(x, length) == [t \in DOMAIN x |-> ewm_mean_at(x, length, t)]

ma_up(s, length) == ewm_mean(clip_lower(diff(s)), length)
ma_down(s, length) == ewm_mean(neg_clip_upper(diff(s)), length)

calculate_rsi(s, length) ==
    LET up == ma_up(s, length)
        down == ma_down(s, length)
        rs == [t \in DOMAIN s |-> FDiv(up[t], down[t])]
    IN [t \in DOMAIN s |->
           FSub(Num(100), FDiv(Num(100), FAdd(rs[t], Num(1))))]

\* ------------------------------------------------------------------ check_stock
\* Python's None and a returned dict, as a sequence of at most one record
None == << >>

\* A frame is what yf.download returned, with the indicator columns of lines
\* 149-155 filled in: [raises, nbars, last_bar, today, prev].  raises: the
\* download or a computation on the frame raised; nbars: len(df); last_bar:
\* the day of df.iloc[-1]; today, prev: the rows df.iloc[-1] and df.iloc[-2].
\* The columns of the two rows range over values below, at and above the
\* close, a superset of what the rolling means of 300 bars can give, so
\* that the windows keep their lengths of 20 to 240 bars.
above_all_now(today) ==
    /\ Gt(today.Close, today.MA20)
    /\ Gt(today.Close, today.MA60)
    /\ Gt(today.Close, today.MA120)
    /\ Gt(today.Close, today.MA240)

above_all_prev(prev) ==
    /\ Gt(prev.Close, prev.MA20)
    /\ Gt(prev.Close, prev.MA60)
    /\ Gt(prev.Close, prev.MA120)
    /\ Gt(prev.Close, prev.MA240)

cond_rsi(today) == Gt(today.RSI, today.RSI_SMA)

\* a slip that fires on every day above the four averages
cond_first_day_sustained(today, prev) == above_all_now(today)

cond_first_day(today, prev) == above_all_now(today) /\ ~above_all_prev(prev)

\* a slip that lets the exception of one ticker through as a result
check_stock_leaky(ticker, company_name, frame) ==
    IF frame.raises
    THEN <<[ticker |-> ticker, name |-> company_name]>>
    ELSE IF frame.nbars = 0 \/ frame.nbars < MIN_BARS THEN None
    ELSE IF Lt(frame.today.Close, Num(MIN_PRICE)) THEN None
    ELSE IF Lt(frame.today.Volume, Num(MIN_VOLUME_SHARES)) THEN None
    ELSE IF cond_rsi(frame.today) /\ cond_first_day(frame.today, frame.prev)
         THEN <<[ticker |-> ticker, name |-> company_name]>>
         ELSE None

check_stock(ticker, company_name, frame) ==
    IF frame.raises THEN None
    ELSE IF frame.nbars = 0 \/ frame.nbars < MIN_BARS THEN None
    ELSE IF Lt(frame.today.Close, Num(MIN_PRICE)) THEN None
    ELSE IF Lt(frame.today.Volume, Num(MIN_VOLUME_SHARES)) THEN None
    ELSE IF cond_rsi(frame.today) /\ cond_first_day(frame.today, frame.prev)
         THEN <<[ticker |-> ticker, name |-> company_name]>>
         ELSE None

\* ------------------------------------------------------------------ frames
Bar(close, volume, ma20, ma60, ma120, ma240, r, rsma) ==
    [Close |-> close, Volume |-> volume, MA20 |-> ma20, MA60 |-> ma60,
     MA120 |-> ma120, MA240 |-> ma240, RSI |-> r, RSI_SMA |-> rsma]

Frame(raises, nbars, last_bar, today, prev) ==
    [raises |-> raises, nbars |-> nbars, last_bar |-> last_bar,
     today |-> today, prev |-> prev]

Closes == {Num(MIN_PRICE - 1), Num(MIN_PRICE), Num(MIN_PRICE + 2)}
Averages == {Num(MIN_PRICE - 1), Num(MIN_PRICE + 1)}
Volumes == {Num(MIN_VOLUME_SHARES - 1), Num(MIN_VOLUME_SHARES), Num(MIN_VOLUME_SHARES + 1)}
RsiValues == {NaN, Num(40), Num(60)}
RsiSmaValues == {NaN, Num(50)}

\* a close or an average is NaN when the provider left a gap in the bars
TodayBars ==
    {Bar(c, v, a, b, e, f, r, q) :
        c \in Closes \cup {NaN}, v \in Volumes, a \in Averages, b \in Averages,
        e \in Averages, f \in Averages \cup {NaN}, r \in RsiValues, q \in RsiSmaValues}

PrevBars ==
    {Bar(c, Num(MIN_VOLUME_SHARES + 1), a, b, e, f, Num(40), Num(50)) :
        c \in {Num(MIN_PRICE), Num(MIN_PRICE + 2)}, a \in Averages, b \in Averages,
        e \in Averages, f \in Averages \cup {NaN}}

\* a frame on which check_stock returns a result, one where the close stays
\* above the four averages, one with no data and one that raises
BarHit == Bar(Num(MIN_PRICE + 2), Num(MIN_VOLUME_SHARES + 1), Num(MIN_PRICE + 1),
              Num(MIN_PRICE + 1), Num(MIN_PRICE + 1), Num(MIN_PRICE + 1), Num(60), Num(50))
BarBelow == Bar(Num(MIN_PRICE), Num(MIN_VOLUME_SHARES + 1), Num(MIN_PRICE + 1),
                Num(MIN_PRICE + 1), Num(MIN_PRICE + 1), Num(MIN_PRICE + 1), Num(40), Num(50))

EvalFrames ==
    {Frame(FALSE, n, 1, t, p) : n \in {MIN_BARS - 1, MIN_BARS}, t \in TodayBars, p \in PrevBars}
    \cup {Frame(FALSE, 0, 1, BarHit, BarBelow), Frame(TRUE, MIN_BARS, 1, BarHit, BarBelow)}

\* the frames of the scan loop: the last bar is today's or, before the close
\* and on days without trading, an earlier day's
ScanFrames(day) ==
    {Frame(FALSE, MIN_BARS, day, BarHit, BarBelow),
     Frame(FALSE, MIN_BARS, day - 1, BarHit, BarBelow),
     Frame(FALSE, MIN_BARS, day, BarHit, BarHit),
     Frame(TRUE, MIN_BARS, day, BarHit, BarBelow)}

\* ------------------------------------------------------------------ text
Range(s) == {s[k] : k \in DOMAIN s}

Digits == <<"0", "1", "2", "3", "4", "5", "6", "7", "8", "9">>

\* the code point of a character of a date string
Ord(c) ==
    IF c = "-" THEN 45
    ELSE 47 + (CHOOSE k \in DOMAIN Digits : Digits[k] = c)

\* a < b on Python strings: the first differing character decides, a proper
\* prefix is smaller
RECURSIVE StrLess(_, _)
StrLess(a, b) ==
    IF b = << >> THEN FALSE
    ELSE IF a = << >> THEN TRUE
    ELSE IF Head(a) = Head(b) THEN StrLess(Tail(a), Tail(b))
    ELSE Ord(Head(a)) < Ord(Head(b))

\* the calendar date of a day number: day 1 is 2024-10-01, day 0 is 2024-09-30
MonthOf(day) == IF day <= 0 THEN 9 ELSE 10
DayOf(day) == IF day <= 0 THEN 30 + day ELSE day

\* "%02d"
TwoDigits(n) == <<Digits[(n \div 10) + 1], Digits[(n % 10) + 1]>>

\* datetime.strftime("%Y-%m-%d")
Strftime(day) ==
    <<"2", "0", "2", "4", "-">> \o TwoDigits(MonthOf(day)) \o <<"-">> \o TwoDigits(DayOf(day))

\* str.replace('.', '-')
replace_dot(sym) == [k \in DOMAIN sym |-> IF sym[k] = "." THEN "-" ELSE sym[k]]

\* ------------------------------------------------------------------ get_target_tickers
\* a dict as a set of [k, v] entries with distinct keys
dict_set(names, key, value) ==
    {e \in names : e.k # key} \cup {[k |-> key, v |-> value]}

dict_get(names, key, default) ==
    IF \E e \in names : e.k = key
    THEN (CHOOSE e \in names : e.k = key).v
    ELSE default

\* the rows a Wikipedia table can hold
Listings ==
    {[Symbol |-> <<"B", ".", "B">>, Security |-> <<"B", "1">>],
     [Symbol |-> <<"B", "-", "B">>, Security |-> <<"B", "2">>],
     [Symbol |-> <<"C">>, Security |-> <<"C", "o">>]}

Tables(n) == UNION {[1..k -> Listings] : k \in 0..n}

\* the loop over df500 up to row n
RECURSIVE loop_500(_, _)
loop_500(df500, n) ==
    IF n = 0 THEN [tickers |-> << >>, names |-> {}]
    ELSE LET acc == loop_500(df500, n - 1)
             sym == replace_dot(df500[n].Symbol)
         IN [tickers |-> Append(acc.tickers, sym),
             names |-> dict_set(acc.names, sym, df500[n].Security)]

\* the loop over df400 up to row n, after the loop over df500
RECURSIVE loop_400(_, _, _)
loop_400(df500, df400, n) ==
    IF n = 0 THEN loop_500(df500, Len(df500))
    ELSE LET acc == loop_400(df500, df400, n - 1)
             sym == replace_dot(df400[n].Symbol)
         IN IF sym \notin Range(acc.tickers)
            THEN [tickers |-> Append(acc.tickers, sym),
                  names |-> dict_set(acc.names, sym, df400[n].Security)]
            ELSE acc

get_target_tickers(df500, df400) == loop_400(df500, df400, Len(df400))

\* ------------------------------------------------------------------ update_rolling_data
\* the header row ["日期", "代號", "名稱"], written D, T, N
DefaultHeader == <<<<"D">>, <<"T">>, <<"N">>>>

today_rows(today, new_data_list) ==
    [k \in DOMAIN new_data_list |->
        <<today, new_data_list[k].ticker, new_data_list[k].name>>]

\* a slip that keeps the rows already stored for today
clean_history_keep(existing_data, today) == existing_data

clean_history(existing_data, today) ==
    LET Other(row) == row[1] # today
    IN SelectSeq(existing_data, Other)

\* sorted(list(set(dates)), reverse=True)
RECURSIVE sorted_desc(_)
sorted_desc(S) ==
    IF S = {} THEN << >>
    ELSE LET m == CHOOSE x \in S : \A y \in S : y = x \/ StrLess(y, x)
         IN <<m>> \o sorted_desc(S \ {m})

unique_dates(data) == sorted_desc({row[1] : row \in Range(data)})

\* a slip that keeps the first dates of the ascending order
keep_dates_oldest(dates) ==
    LET n == Len(dates)
    IN SubSeq(dates, n - RETENTION_DAYS + 1, n)

\* unique_dates[:3]
keep_dates(dates) == SubSeq(dates, 1, RETENTION_DAYS)

trim(data) ==
    LET dates == unique_dates(data)
        Kept(row) == row[1] \in Range(keep_dates(dates))
    IN IF Len(dates) > RETENTION_DAYS THEN SelectSeq(data, Kept) ELSE data

\* lines 68-83: final_data from the rows read and the batch
merge_and_trim(existing_data, today, new_data_list) ==
    trim(clean_history(existing_data, today) \o today_rows(today, new_data_list))

read_header(rows) == IF Len(rows) <= 1 THEN DefaultHeader ELSE rows[1]
read_existing(rows) == IF Len(rows) <= 1 THEN << >> ELSE Tail(rows)

\* ------------------------------------------------------------------ the program
NoFrame == Frame(FALSE, 0, 1, BarBelow, BarBelow)
NoSheet == [exists |-> FALSE, rows |-> << >>]

InitMain ==
    /\ now = 1
    /\ run = 1
    /\ sheet = NoSheet
    /\ tickers = << >>
    /\ name_map = {}
    /\ i = 0
    /\ found_stocks = << >>
    /\ evals = << >>
    /\ calls = 0
    /\ all_rows = << >>
    /\ header = << >>
    /\ final_data = << >>
    /\ today_str = << >>
    /\ upd = "none"

Init ==
    /\ pc = "start"
    /\ InitMain
    /\ df = NoFrame
    /\ res = None
    /\ series = << >>
    /\ rsi = << >>

\* lines 189-191: the key file is missing
KeyFileMissing ==
    /\ pc = "start"
    /\ pc' = "done"
    /\ UNCHANGED <<mainVars, df, res, series, rsi>>

\* lines 193-194, 97-131: both tables are read
GetTargetTickers ==
    /\ pc = "start"
    /\ \E df500 \in Tables(Max500), df400 \in Tables(Max400) :
          LET r == get_target_tickers(df500, df400)
          IN /\ tickers' = r.tickers
             /\ name_map' = r.names
             /\ pc' = IF r.tickers = << >> THEN "done" ELSE "scan"
    /\ i' = 1
    /\ UNCHANGED <<now, run, sheet, found_stocks, evals, calls, all_rows, header,
                   final_data, today_str, upd, df, res, series, rsi>>

\* lines 132-134, 194: a request or a table fails
GetTargetTickersFails ==
    /\ pc = "start"
    /\ pc' = "done"
    /\ UNCHANGED <<mainVars, df, res, series, rsi>>

\* lines 201-211: one ticker of the scan loop
ScanStep ==
    /\ pc = "scan"
    /\ i <= Len(tickers)
    /\ \E frame \in ScanFrames(now) :
          LET ticker == tickers[i]
              c_name == dict_get(name_map, ticker, ticker)
              r == check_stock(ticker, c_name, frame)
          IN /\ found_stocks' = IF r # None THEN Append(found_stocks, r[1]) ELSE found_stocks
             /\ evals' = Append(evals, [ticker |-> ticker, frame |-> frame])
    /\ i' = i + 1
    /\ UNCHANGED <<pc, now, run, sheet, tickers, name_map, calls, all_rows, header,
                   final_data, today_str, upd, df, res, series, rsi>>

\* lines 220-221: the batch is handed to update_rolling_data
CallUpdate ==
    /\ pc = "scan"
    /\ i > Len(tickers)
    /\ found_stocks # << >>
    /\ pc' = "u_open"
    /\ calls' = calls + 1
    /\ upd' = "running"
    /\ UNCHANGED <<now, run, sheet, tickers, name_map, i, found_stocks, evals, all_rows,
                   header, final_data, today_str, df, res, series, rsi>>

\* lines 222-223: nothing found, nothing written
NoStocksFound ==
    /\ pc = "scan"
    /\ i > Len(tickers)
    /\ found_stocks = << >>
    /\ pc' = "done"
    /\ UNCHANGED <<mainVars, df, res, series, rsi>>

\* lines 48-58: the worksheet is opened, or created with its header row
UpdateOpen ==
    /\ pc = "u_open"
    /\ sheet' = IF sheet.exists THEN sheet ELSE [exists |-> TRUE, rows |-> <<DefaultHeader>>]
    /\ pc' = "u_read"
    /\ UNCHANGED <<now, run, tickers, name_map, i, found_stocks, evals, calls, all_rows,
                   header, final_data, today_str, upd, df, res, series, rsi>>

\* lines 57-58, 91-92: add_worksheet succeeds and append_row raises
UpdateCreateFails ==
    /\ pc = "u_open"
    /\ ~sheet.exists
    /\ sheet' = [exists |-> TRUE, rows |-> << >>]
    /\ pc' = "done"
    /\ upd' = "failed"
    /\ UNCHANGED <<now, run, tickers, name_map, i, found_stocks, evals, calls, all_rows,
                   header, final_data, today_str, df, res, series, rsi>>

\* lines 60-83: the rows are read and final_data is computed
UpdateRead ==
    /\ pc = "u_read"
    /\ all_rows' = sheet.rows
    /\ header' = read_header(sheet.rows)
    /\ today_str' = Strftime(now)
    /\ final_data' = merge_and_trim(read_existing(sheet.rows), Strftime(now), found_stocks)
    /\ pc' = "u_clear"
    /\ UNCHANGED <<now, run, sheet, tickers, name_map, i, found_stocks, evals, calls,
                   upd, df, res, series, rsi>>

\* line 85: ws.clear()
UpdateClear ==
    /\ pc = "u_clear"
    /\ sheet' = [sheet EXCEPT !.rows = << >>]
    /\ pc' = "u_header"
    /\ UNCHANGED <<now, run, tickers, name_map, i, found_stocks, evals, calls, all_rows,
                   header, final_data, today_str, upd, df, res, series, rsi>>

\* line 86: ws.append_row(header)
UpdateHeader ==
    /\ pc = "u_header"
    /\ sheet' = [sheet EXCEPT !.rows = Append(sheet.rows, header)]
    /\ pc' = "u_rows"
    /\ UNCHANGED <<now, run, tickers, name_map, i, found_stocks, evals, calls, all_rows,
                   header, final_data, today_str, upd, df, res, series, rsi>>

\* lines 87-89: ws.append_rows(final_data)
UpdateRows ==
    /\ pc = "u_rows"
    /\ sheet' = IF final_data # << >>
                THEN [sheet EXCEPT !.rows = sheet.rows \o final_data]
                ELSE sheet
    /\ pc' = "done"
    /\ upd' = "ok"
    /\ UNCHANGED <<now, run, tickers, name_map, i, found_stocks, evals, calls, all_rows,
                   header, final_data, today_str, df, res, series, rsi>>

\* lines 91-92: a call of the backend raises; the failure is printed
UpdateFails ==
    /\ pc \in {"u_open", "u_read", "u_clear", "u_header", "u_rows"}
    /\ pc' = "done"
    /\ upd' = "failed"
    /\ UNCHANGED <<now, run, sheet, tickers, name_map, i, found_stocks, evals, calls,
                   all_rows, header, final_data, today_str, df, res, series, rsi>>

\* line 188: the program is started again
NewRun ==
    /\ pc = "done"
    /\ run < MaxRuns
    /\ pc' = "start"
    /\ run' = run + 1
    /\ tickers' = << >>
    /\ name_map' = {}
    /\ i' = 0
    /\ found_stocks' = << >>
    /\ evals' = << >>
    /\ calls' = 0
    /\ all_rows' = << >>
    /\ header' = << >>
    /\ final_data' = << >>
    /\ today_str' = << >>
    /\ upd' = "none"
    /\ UNCHANGED <<now, sheet, df, res, series, rsi>>

\* a day passes between two runs; a run reads the clock once, at line 68
Tick ==
    /\ pc \in {"start", "done"}
    /\ now < MaxDay
    /\ now' = now + 1
    /\ UNCHANGED <<pc, run, sheet, tickers, name_map, i, found_stocks, evals, calls,
                   all_rows, header, final_data, today_str, upd, df, res, series, rsi>>

Next ==
    \/ KeyFileMissing
    \/ GetTargetTickers
    \/ GetTargetTickersFails
    \/ ScanStep
    \/ CallUpdate
    \/ NoStocksFound
    \/ UpdateOpen
    \/ UpdateCreateFails
    \/ UpdateRead
    \/ UpdateClear
    \/ UpdateHeader
    \/ UpdateRows
    \/ UpdateFails
    \/ NewRun
    \/ Tick

Spec == Init /\ [][Next]_vars

\* ------------------------------------------------------------------ one scan
NextScan ==
    \/ KeyFileMissing
    \/ GetTargetTickers
    \/ GetTargetTickersFails
    \/ ScanStep
    \/ CallUpdate
    \/ NoStocksFound

SpecScan == Init /\ [][NextScan]_vars

\* ------------------------------------------------------------------ the store alone
RecB == [ticker |-> <<"B", "-", "B">>, name |-> <<"B", "1">>]
RecC == [ticker |-> <<"C">>, name |-> <<"C", "o">>]

\* the batches handed to update_rolling_data
Batches == {<< >>, <<RecC>>, <<RecB, RecC>>, <<RecB, RecB>>}

\* what runs on the RETENTION_DAYS days before day 1 have left: for each of
\* these days either nothing or the rows of one batch, oldest first
SeedDays == (1 - RETENTION_DAYS)..0

RECURSIVE seed_rows(_, _)
seed_rows(days, day) ==
    IF day > 0 THEN << >>
    ELSE (IF day \in days THEN today_rows(Strftime(day), <<RecC>>) ELSE << >>)
         \o seed_rows(days, day + 1)

SeedSheets ==
    {NoSheet}
    \cup {[exists |-> TRUE, rows |-> <<DefaultHeader>> \o seed_rows(days, 1 - RETENTION_DAYS)] :
            days \in SUBSET SeedDays}

InitStore ==
    /\ pc = "done"
    /\ now = 1
    /\ run = 0
    /\ sheet \in SeedSheets
    /\ tickers = << >>
    /\ name_map = {}
    /\ i = 0
    /\ found_stocks = << >>
    /\ evals = << >>
    /\ calls = 0
    /\ all_rows = << >>
    /\ header = << >>
    /\ final_data = << >>
    /\ today_str = << >>
    /\ upd = "none"
    /\ df = NoFrame
    /\ res = None
    /\ series = << >>
    /\ rsi = << >>

\* line 45: update_rolling_data(new_data_list) is called
StoreCall ==
    /\ pc = "done"
    /\ run < MaxRuns
    /\ run' = run + 1
    /\ found_stocks' \in Batches
    /\ pc' = "u_open"
    /\ calls' = calls + 1
    /\ upd' = "running"
    /\ all_rows' = << >>
    /\ header' = << >>
    /\ final_data' = << >>
    /\ today_str' = << >>
    /\ UNCHANGED <<now, sheet, tickers, name_map, i, evals, df, res, series, rsi>>

NextStore ==
    \/ StoreCall
    \/ UpdateOpen
    \/ UpdateCreateFails
    \/ UpdateRead
    \/ UpdateClear
    \/ UpdateHeader
    \/ UpdateRows
    \/ UpdateFails
    \/ Tick

SpecStore == InitStore /\ [][NextStore]_vars

\* ------------------------------------------------------------------ check_stock alone
EvalTicker == <<"C">>
EvalName == <<"C", "o">>

InitEval ==
    /\ pc = "eval"
    /\ InitMain
    /\ df \in EvalFrames
    /\ res = None
    /\ series = << >>
    /\ rsi = << >>

\* lines 136-183 on the frame df
Evaluate ==
    /\ pc = "eval"
    /\ res' = check_stock(EvalTicker, EvalName, df)
    /\ pc' = "returned"
    /\ UNCHANGED <<mainVars, df, series, rsi>>

NextEval == Evaluate

SpecEval == InitEval /\ [][NextEval]_vars

\* ------------------------------------------------------------------ calculate_rsi alone
ClosePrices == {1, 2, 3}

InitRsi ==
    /\ pc = "rsi"
    /\ InitMain
    /\ df = NoFrame
    /\ res = None
    /\ series \in UNION {[1..n -> ClosePrices] : n \in 1..MaxLen}
    /\ rsi = << >>

\* lines 32-40 on the close series
CalculateRsi ==
    /\ pc = "rsi"
    /\ rsi' = calculate_rsi(series, RSI_LENGTH)
    /\ pc' = "returned"
    /\ UNCHANGED <<mainVars, df, res, series>>

NextRsi == CalculateRsi

SpecRsi == InitRsi /\ [][NextRsi]_vars

\* ------------------------------------------------------------------ properties
\* the rows of the worksheet below its header row
DataRows(rows) == IF rows = << >> THEN << >> ELSE Tail(rows)

StoredDates == {row[1] : row \in Range(DataRows(sheet.rows))}

Days == (1 - RETENTION_DAYS)..MaxDay

IsDate(s) == \E x \in Days : Strftime(x) = s
DayNumber(s) == CHOOSE x \in Days : Strftime(x) = s

\* date a is a calendar day before date b
Older(a, b) == IsDate(a) /\ IsDate(b) /\ DayNumber(a) < DayNumber(b)

\* the dates up for retention: those of the rows read, today's only when
\* the batch has a row (today's earlier rows are replaced, not evicted)
MergedDates ==
    ({row[1] : row \in Range(DataRows(all_rows))} \ {today_str})
    \cup (IF found_stocks # << >> THEN {today_str} ELSE {})

EvictedDates == MergedDates \ StoredDates

\* C1: the worksheet never holds rows of more than 3 (RETENTION_DAYS) distinct
\* dates, and after an update that evicted dates, every evicted date is a
\* calendar day strictly before every date that survived.
C1_Retention ==
    /\ Cardinality(StoredDates) <= RETENTION_DAYS
    /\ upd = "ok" =>
          \A e \in EvictedDates : \A d \in StoredDates : Older(e, d)

\* an update of a worksheet holding 2024-09-28, -29 and -30 that wrote a later
\* day's rows and evicted 2024-09-28
C1_Witness ==
    /\ upd = "ok"
    /\ Strftime(1 - RETENTION_DAYS) \in EvictedDates
    /\ Cardinality(StoredDates) = RETENTION_DAYS
    /\ today_str \in StoredDates

\* C2: once update_rolling_data has read the worksheet, and whichever call of
\* the backend fails, the stored rows are either exactly the rows read or
\* exactly the merged and trimmed rows; no emptied or partly written
\* worksheet is observable.
C2_AllOrNothing ==
    (pc \in {"u_clear", "u_header", "u_rows"} \/ (pc = "done" /\ today_str # << >>))
        => \/ DataRows(sheet.rows) = DataRows(all_rows)
           \/ DataRows(sheet.rows) = final_data

\* the worksheet an update leaves when it reads rows, today's date and batch
update_result(rows, today, new_data_list) ==
    <<read_header(rows)>> \o merge_and_trim(read_existing(rows), today, new_data_list)

\* C3: applying the update a second time with the same today_date and the
\* same batch leaves the whole worksheet, and so the rows of that date, as the
\* first application left them.
C3_Idempotent ==
    (pc = "done" /\ upd = "ok")
        => update_result(sheet.rows, today_str, found_stocks) = sheet.rows

\* an update that found today's rows of the same batch already stored, and
\* left the worksheet as it was
C3_Witness ==
    /\ pc = "done"
    /\ upd = "ok"
    /\ found_stocks # << >>
    /\ Len(all_rows) > Len(found_stocks) + 1
    /\ today_str \in {row[1] : row \in Range(DataRows(all_rows))}
    /\ sheet.rows = all_rows

\* C4: the batch holds at most one result per ticker, and the worksheet holds
\* at most one row per (date, ticker) pair.
C4_OneRecordPerDateTicker ==
    /\ \A j, k \in DOMAIN found_stocks :
          j # k => found_stocks[j].ticker # found_stocks[k].ticker
    /\ LET data == DataRows(sheet.rows)
       IN \A j, k \in DOMAIN data :
             j # k => <<data[j][1], data[j][2]>> # <<data[k][1], data[k][2]>>

\* a bar's close exceeds its 20-, 60-, 120- and 240-length averages
AboveAll(bar) ==
    \A ma \in {bar.MA20, bar.MA60, bar.MA120, bar.MA240} : Gt(bar.Close, ma)

PassesFilters(frame) ==
    /\ ~frame.raises
    /\ frame.nbars >= MIN_BARS
    /\ ~Lt(frame.today.Close, Num(MIN_PRICE))
    /\ ~Lt(frame.today.Volume, Num(MIN_VOLUME_SHARES))

\* C5: on a frame that passes the length, price and volume filters,
\* check_stock returns {ticker, name} iff the close is above all four
\* averages today, was not above all four on the previous bar, and today's
\* RSI exceeds its average; otherwise it returns None, in particular when
\* the close is above all four averages on both bars.
C5_FirstDayRule ==
    (pc = "returned" /\ PassesFilters(df))
        => IF AboveAll(df.today) /\ ~AboveAll(df.prev)
              /\ Gt(df.today.RSI, df.today.RSI_SMA)
           THEN res = <<[ticker |-> EvalTicker, name |-> EvalName]>>
           ELSE res = None

\* a frame past the filters with the close above all four averages on both
\* bars and the RSI above its average: nothing is returned
C5_Witness ==
    /\ pc = "returned"
    /\ PassesFilters(df)
    /\ AboveAll(df.today)
    /\ AboveAll(df.prev)
    /\ Gt(df.today.RSI, df.today.RSI_SMA)
    /\ res = None

\* C6: check_stock returns a result only when the latest close strictly
\* exceeds MIN_PRICE and the latest volume strictly exceeds
\* MIN_VOLUME_SHARES.
C6_StrictThresholds ==
    (pc = "returned" /\ res # None)
        => /\ Gt(df.today.Close, Num(MIN_PRICE))
           /\ Gt(df.today.Volume, Num(MIN_VOLUME_SHARES))

\* C7: at every bar where the smoothed average loss is 0, calculate_rsi
\* yields exactly 100, never NaN or an infinity.
C7_ZeroLossIs100 ==
    pc = "returned"
        => \A t \in DOMAIN series :
              LET avg_loss == ma_down(series, RSI_LENGTH)[t]
              IN (avg_loss.k = "num" /\ avg_loss.n = 0) => rsi[t] = Num(100)

\* the frame of the k-th ticker, with a frame that raised replaced by one
\* without data
QuietFrame(k) == IF evals[k].frame.raises THEN NoFrame ELSE evals[k].frame

\* the batch of the first n tickers had the failing ones produced no signal
RECURSIVE ExpectedBatch(_)
ExpectedBatch(n) ==
    IF n = 0 THEN << >>
    ELSE LET r == check_stock(tickers[n], dict_get(name_map, tickers[n], tickers[n]),
                              QuietFrame(n))
         IN ExpectedBatch(n - 1) \o r

\* C8: the scan loop evaluates the tickers of the universe in order, all of
\* them by the time it ends, whichever of them raise; a ticker that raises
\* adds nothing, and the batch is the one the same frames give when the
\* failing tickers produce no signal.
C8_FailureIsolation ==
    /\ pc = "scan" =>
          /\ Len(evals) = i - 1
          /\ \A k \in DOMAIN evals : evals[k].ticker = tickers[k]
          /\ found_stocks = ExpectedBatch(i - 1)
    /\ pc = "u_open" =>
          /\ Len(evals) = Len(tickers)
          /\ \A k \in DOMAIN evals : evals[k].ticker = tickers[k]
          /\ found_stocks = ExpectedBatch(Len(tickers))

\* a finished scan in which a ticker raised and a later ticker is in the batch
C8_Witness ==
    /\ pc = "u_open"
    /\ \E j, k \in DOMAIN evals :
          /\ j < k
          /\ evals[j].frame.raises
          /\ ~evals[k].frame.raises
          /\ found_stocks = <<[ticker |-> tickers[k],
                               name |-> dict_get(name_map, tickers[k], tickers[k])]>>

RowsOfDate(date) ==
    LET On(row) == row[1] = date
    IN SelectSeq(DataRows(sheet.rows), On)

\* C9: a run whose scan of a non-empty universe completes calls the update
\* exactly once, after the last ticker, whatever the size of the batch, and
\* after it the rows of today's date are exactly the run's results.
C9_UpdateOncePerRun ==
    /\ calls > 0 => i > Len(tickers)
    /\ (pc = "done" /\ tickers # << >> /\ i > Len(tickers)) =>
          /\ calls = 1
          /\ upd = "ok" => RowsOfDate(today_str) = today_rows(today_str, found_stocks)

\* C10: every row the update writes for a result carries the date of the
\* last bar of the frame the result was computed on.
C10_RowDateIsBarDate ==
    (pc = "done" /\ upd = "ok") =>
        \A k \in DOMAIN evals :
            check_stock(evals[k].ticker,
                        dict_get(name_map, evals[k].ticker, evals[k].ticker),
                        evals[k].frame) # None
                => <<Strftime(evals[k].frame.last_bar), evals[k].ticker,
                     dict_get(name_map, evals[k].ticker, evals[k].ticker)>>
                       \in Range(DataRows(sheet.rows))

====
